---- MODULE Spec2Model ----
(***************************************************************************)
(* Speaker diarization pipeline of whisperdesk-diarization:                *)
(*   SpeakerSegmenter::detect_change_points  (speaker-segmenter.cpp)       *)
(*   DiarizationEngine::create_segments / assign_speakers (diarize-cli.cpp)*)
(*   SpeakerEmbedder clustering state        (speaker-embedder.cpp)        *)
(*                                                                         *)
(* Numbers.  float values of the embedding space are fixed-point integers: *)
(* a component x is stored as round(x * FixedOne); a dot product of two    *)
(* such vectors, a similarity, a threshold and a confidence are stored at  *)
(* the scale One = FixedOne^2.  Divisions round to nearest and sqrt rounds *)
(* down, so a normalised vector has a norm close to, but not exactly, 1:   *)
(* the rounding noise of float arithmetic is present in the model.         *)
(* Times are integers in milliseconds, sample positions are sample counts. *)
(***************************************************************************)
EXTENDS Integers, Sequences, FiniteSets, TLC

\* ------------------------------------------------------------------ bounds
\* fixed-point resolution of one embedding component
FixedOne == 100
\* embedding_dim_ of the model (512 in the default construction)
EmbDim == 2
\* largest max_speakers option explored
MaxSpk == 3
\* number of direct find_or_create_speaker calls explored after a reset
MaxCalls == 4

\* speaker changes the segmentation model hears in one audio
MaxChanges == 2
\* length of a change-point list handed to create_segments directly
MaxGiven == 2

\* process_audio runs on one engine
MaxRuns == 2

One == FixedOne * FixedOne
Half == One \div 2

\* ------------------------------------------------------ arithmetic helpers
Abs(x) == IF x < 0 THEN -x ELSE x

Min2(a, b) == IF a < b THEN a ELSE b

Max2(a, b) == IF a > b THEN a ELSE b

\* a / b for b > 0, rounded to the nearest integer (float division)
RoundDiv(a, b) ==
    IF a >= 0 THEN (2 * a + b) \div (2 * b)
              ELSE -((2 * (-a) + b) \div (2 * b))

\* std::sqrt on the fixed-point grid, rounded down
\* bisection: lo * lo <= n < hi * hi
RECURSIVE SqrtBetween(_, _, _)
SqrtBetween(n, lo, hi) ==
    IF hi - lo <= 1 THEN lo
    ELSE LET mid == (lo + hi) \div 2
         IN  IF mid * mid <= n THEN SqrtBetween(n, mid, hi)
                               ELSE SqrtBetween(n, lo, mid)

ISqrt(n) == SqrtBetween(n, 0, n + 1)

RECURSIVE SumSeq(_)
SumSeq(s) == IF s = <<>> THEN 0 ELSE Head(s) + SumSeq(Tail(s))

\* ------------------------------------------------- SpeakerEmbedder (pure)
\* sum of a[i] * b[i]
DotProduct(a, b) == SumSeq([i \in 1..Len(a) |-> a[i] * b[i]])

\* SpeakerEmbedder::normalize_embedding
normalize_embedding(embedding) ==
    IF embedding = <<>> THEN embedding
    ELSE LET norm == ISqrt(DotProduct(embedding, embedding))
         IN  IF norm > 0
             THEN [i \in 1..Len(embedding) |->
                       RoundDiv(embedding[i] * FixedOne, norm)]
             ELSE embedding

\* the mutant: the dot product is returned unclipped
cosine_similarity_noclip(a, b) ==
    IF Len(a) # Len(b) \/ a = <<>> THEN 0
    ELSE DotProduct(a, b)

\* SpeakerEmbedder::cosine_similarity, at scale One
cosine_similarity(a, b) ==
    IF Len(a) # Len(b) \/ a = <<>> THEN 0
    ELSE Max2(-One, Min2(One, DotProduct(a, b)))

\* the loop of find_or_create_speaker over profiles k..Len(centroids):
\* carries (best_similarity, best_speaker), 0-based speaker index
RECURSIVE BestScan(_, _, _, _, _)
BestScan(embedding, centroids, k, best_similarity, best_speaker) ==
    IF k > Len(centroids)
    THEN [best_similarity |-> best_similarity, best_speaker |-> best_speaker]
    ELSE LET similarity == cosine_similarity(embedding, centroids[k])
         IN  IF similarity > best_similarity
             THEN BestScan(embedding, centroids, k + 1, similarity, k - 1)
             ELSE BestScan(embedding, centroids, k + 1,
                           best_similarity, best_speaker)

\* SpeakerEmbedder::update_speaker_centroid on (centroids, counts)
update_speaker_centroid(centroids, counts, speaker_id, embedding) ==
    IF speaker_id < 0 \/ speaker_id >= Len(centroids)
    THEN [centroids |-> centroids, counts |-> counts]
    ELSE LET centroid == centroids[speaker_id + 1]
             count    == counts[speaker_id + 1]
             mean     == [i \in 1..Len(centroid) |->
                            IF i <= Len(embedding)
                            THEN RoundDiv(centroid[i] * count + embedding[i],
                                          count + 1)
                            ELSE centroid[i]]
         IN  [centroids |-> [centroids EXCEPT ![speaker_id + 1] =
                                 normalize_embedding(mean)],
              counts    |-> [counts EXCEPT ![speaker_id + 1] = count + 1]]

\* the mutant: a new profile is created without looking at max_speakers
find_or_create_speaker_nocap(centroids, counts, embedding, threshold, max_speakers) ==
    LET best == BestScan(embedding, centroids, 1, -One, -1)
    IN  IF best.best_similarity > threshold /\ best.best_speaker >= 0
        THEN update_speaker_centroid(centroids, counts, best.best_speaker, embedding)
                 @@ [id |-> best.best_speaker, created |-> FALSE]
        ELSE [centroids |-> Append(centroids, embedding),
              counts    |-> Append(counts, 1),
              id        |-> Len(centroids),
              created   |-> TRUE]

\* the mutant: the threshold comparison is inverted
find_or_create_speaker_inverted(centroids, counts, embedding, threshold, max_speakers) ==
    LET best == BestScan(embedding, centroids, 1, -One, -1)
    IN  IF best.best_similarity < threshold /\ best.best_speaker >= 0
        THEN update_speaker_centroid(centroids, counts, best.best_speaker, embedding)
                 @@ [id |-> best.best_speaker, created |-> FALSE]
        ELSE IF Len(centroids) < max_speakers
        THEN [centroids |-> Append(centroids, embedding),
              counts    |-> Append(counts, 1),
              id        |-> Len(centroids),
              created   |-> TRUE]
        ELSE IF best.best_speaker >= 0
        THEN update_speaker_centroid(centroids, counts, best.best_speaker, embedding)
                 @@ [id |-> best.best_speaker, created |-> FALSE]
        ELSE [centroids |-> centroids, counts |-> counts,
              id |-> 0, created |-> FALSE]

\* the mutant: at capacity the call falls back to speaker 0 instead of the
\* closest speaker
find_or_create_speaker_first(centroids, counts, embedding, threshold, max_speakers) ==
    LET best == BestScan(embedding, centroids, 1, -One, -1)
    IN  IF best.best_similarity > threshold /\ best.best_speaker >= 0
        THEN update_speaker_centroid(centroids, counts, best.best_speaker, embedding)
                 @@ [id |-> best.best_speaker, created |-> FALSE]
        ELSE IF Len(centroids) < max_speakers
        THEN [centroids |-> Append(centroids, embedding),
              counts    |-> Append(counts, 1),
              id        |-> Len(centroids),
              created   |-> TRUE]
        ELSE update_speaker_centroid(centroids, counts, 0, embedding)
                 @@ [id |-> 0, created |-> FALSE]

\* the mutant: a similarity equal to the threshold matches
find_or_create_speaker_ge(centroids, counts, embedding, threshold, max_speakers) ==
    LET best == BestScan(embedding, centroids, 1, -One, -1)
    IN  IF best.best_similarity >= threshold /\ best.best_speaker >= 0
        THEN update_speaker_centroid(centroids, counts, best.best_speaker, embedding)
                 @@ [id |-> best.best_speaker, created |-> FALSE]
        ELSE IF Len(centroids) < max_speakers
        THEN [centroids |-> Append(centroids, embedding),
              counts    |-> Append(counts, 1),
              id        |-> Len(centroids),
              created   |-> TRUE]
        ELSE IF best.best_speaker >= 0
        THEN update_speaker_centroid(centroids, counts, best.best_speaker, embedding)
                 @@ [id |-> best.best_speaker, created |-> FALSE]
        ELSE [centroids |-> centroids, counts |-> counts,
              id |-> 0, created |-> FALSE]

\* the mutant: a new profile is numbered from 1
find_or_create_speaker_onebased(centroids, counts, embedding, threshold, max_speakers) ==
    LET best == BestScan(embedding, centroids, 1, -One, -1)
    IN  IF best.best_similarity > threshold /\ best.best_speaker >= 0
        THEN update_speaker_centroid(centroids, counts, best.best_speaker, embedding)
                 @@ [id |-> best.best_speaker, created |-> FALSE]
        ELSE IF Len(centroids) < max_speakers
        THEN [centroids |-> Append(centroids, embedding),
              counts    |-> Append(counts, 1),
              id        |-> Len(centroids) + 1,
              created   |-> TRUE]
        ELSE IF best.best_speaker >= 0
        THEN update_speaker_centroid(centroids, counts, best.best_speaker, embedding)
                 @@ [id |-> best.best_speaker, created |-> FALSE]
        ELSE [centroids |-> centroids, counts |-> counts,
              id |-> 0, created |-> FALSE]

\* SpeakerEmbedder::find_or_create_speaker: the new clustering state, the
\* returned id and whether a profile was pushed
find_or_create_speaker(centroids, counts, embedding, threshold, max_speakers) ==
    LET best == BestScan(embedding, centroids, 1, -One, -1)
    IN  IF best.best_similarity > threshold /\ best.best_speaker >= 0
        THEN update_speaker_centroid(centroids, counts, best.best_speaker, embedding)
                 @@ [id |-> best.best_speaker, created |-> FALSE]
        ELSE IF Len(centroids) < max_speakers
        THEN [centroids |-> Append(centroids, embedding),
              counts    |-> Append(counts, 1),
              id        |-> Len(centroids),
              created   |-> TRUE]
        ELSE IF best.best_speaker >= 0
        THEN update_speaker_centroid(centroids, counts, best.best_speaker, embedding)
                 @@ [id |-> best.best_speaker, created |-> FALSE]
        ELSE [centroids |-> centroids, counts |-> counts,
              id |-> 0, created |-> FALSE]

\* SpeakerEmbedder::calculate_confidence, at scale One
calculate_confidence(centroids, embedding, speaker_id) ==
    IF speaker_id < 0 \/ speaker_id >= Len(centroids)
    THEN Half
    ELSE (cosine_similarity(embedding, centroids[speaker_id + 1]) + One) \div 2

\* --------------------------------------------------- program constants
\* DiarizeOptions::sample_rate and SpeakerSegmenter::sample_rate_
sample_rate == 16000
\* SpeakerSegmenter::window_size_
window_size_ == 51200
\* SpeakerSegmenter::hop_size_
hop_size_ == 25600
\* merge distance of change points, 1.0 s
MergeDistanceMs == 1000
\* audio longer than 10 s gets artificial change points
ArtificialMinSeconds == 10
\* artificial change points every 30 s ...
ArtificialStepMs == 30000
\* ... while t < duration - 10 s
ArtificialTailMs == 10000
\* create_segments: fixed windows when total_duration > 30 s
LongAudioMs == 30000
\* create_segments: segment_duration = 25 s
SegmentDurationMs == 25000
\* create_segments: start < total_duration - 5 s
FixedTailMs == 5000
\* create_segments: minimum segment length 2.0 s
MinSegmentMs == 2000

\* time steps the segmentation model returns per window (186 for pyannote)
FramesPerWindow == 5

\* samples / sample_rate, in ms
ToMs(samples) == (samples * 1000) \div sample_rate

\* static_cast<size_t>(seconds * sample_rate), from ms
ToSamples(ms) == (ms * sample_rate) \div 1000

\* sum of f[lo..hi], by halving
RECURSIVE SumRange(_, _, _)
SumRange(f, lo, hi) ==
    IF lo > hi THEN 0
    ELSE IF lo = hi THEN f[lo]
    ELSE LET mid == (lo + hi) \div 2
         IN  SumRange(f, lo, mid) + SumRange(f, mid + 1, hi)

\* ------------------------------------------------------ SpeakerSegmenter
\* The segmentation model hears `truth`, a set of [t, h]: at time t (ms) the
\* speaker changes, and the frame that shows the change has normalised
\* entropy h (scale One).  Two speakers alternate.
dominant_class(truth, ms) == Cardinality({c \in truth : c.t <= ms}) % 2

\* entropy / log(num_classes) of the frame at ms: that of the latest change
FrameEntropy(truth, ms) ==
    LET past == {c \in truth : c.t <= ms}
    IN  IF past = {} THEN 0
        ELSE (CHOOSE c \in past : \A d \in past : d.t <= c.t).h

\* samples between two frames of a window: window_size_ / probabilities.size()
FrameStep == window_size_ \div FramesPerWindow

\* SpeakerSegmenter::process_window for the window starting at sample i:
\* the change probability of each time step (scale One)
process_window(truth, i) ==
    [j \in 1..FramesPerWindow |->
        LET ms   == ToMs(i + (j - 1) * FrameStep)
            prev == ToMs(i + (j - 2) * FrameStep)
        IN  IF j > 1 /\ dominant_class(truth, prev) # dominant_class(truth, ms)
            THEN Min2(One, 2 * Min2(One, FrameEntropy(truth, ms)))
            ELSE 0]

\* the mutant: the loop runs while i + window_size_ <= audio.size()
WindowCount_inclusive(size) ==
    IF size < window_size_ THEN 0
    ELSE (size - window_size_) \div hop_size_ + 1

\* number of passes of `for (i = 0; i + window_size_ < audio.size(); i += hop_size_)`
WindowCount(size) ==
    IF size <= window_size_ THEN 0
    ELSE (size - window_size_ - 1) \div hop_size_ + 1

\* all_probabilities: the windows' results concatenated
all_probabilities(truth, size) ==
    [k \in 1..(WindowCount(size) * FramesPerWindow) |->
        process_window(truth, ((k - 1) \div FramesPerWindow) * hop_size_)
            [((k - 1) % FramesPerWindow) + 1]]

\* all_timestamps, in ms
all_timestamps(size) ==
    [k \in 1..(WindowCount(size) * FramesPerWindow) |->
        ToMs(((k - 1) \div FramesPerWindow) * hop_size_
             + ((k - 1) % FramesPerWindow) * FrameStep)]

\* max(detection_threshold, mean_prob + 2 * (max_prob - mean_prob) * 0.1)
adaptive_threshold(probs, detection_threshold) ==
    LET n        == Len(probs)
        max_prob == CHOOSE m \in {probs[k] : k \in 1..n} :
                        \A k \in 1..n : probs[k] <= m
        mean_prob == RoundDiv(SumRange(probs, 1, n), n)
    IN  Max2(detection_threshold,
             mean_prob + RoundDiv(2 * (max_prob - mean_prob), 10))

\* indices (1-based) of the strict local maxima above the adaptive threshold
PeakIndices(probs, detection_threshold) ==
    IF Len(probs) = 0 THEN {}
    ELSE LET a == adaptive_threshold(probs, detection_threshold)
         IN  {k \in 2..(Len(probs) - 1) :
                 /\ probs[k] > a
                 /\ probs[k] > probs[k - 1]
                 /\ probs[k] > probs[k + 1]}

\* the timestamps of the indices in idx, in index order
RECURSIVE InIndexOrder(_, _)
InIndexOrder(times, idx) ==
    IF idx = {} THEN <<>>
    ELSE LET k == CHOOSE x \in idx : \A y \in idx : x <= y
         IN  <<times[k]>> \o InIndexOrder(times, idx \ {k})

\* the mutant: the loop runs while t <= duration - 10
RECURSIVE ArtificialFrom_inclusive(_, _)
ArtificialFrom_inclusive(t, duration) ==
    IF t <= duration - ArtificialTailMs
    THEN <<t>> \o ArtificialFrom_inclusive(t + ArtificialStepMs, duration)
    ELSE <<>>

\* for (t = 30; t < duration - 10; t += 30) change_points.push_back(t)
RECURSIVE ArtificialFrom(_, _)
ArtificialFrom(t, duration) ==
    IF t < duration - ArtificialTailMs
    THEN <<t>> \o ArtificialFrom(t + ArtificialStepMs, duration)
    ELSE <<>>

\* std::sort
RECURSIVE InsertSorted(_, _)
InsertSorted(x, s) ==
    IF s = <<>> THEN <<x>>
    ELSE IF x <= Head(s) THEN <<x>> \o s
    ELSE <<Head(s)>> \o InsertSorted(x, Tail(s))

RECURSIVE SortAscending(_)
SortAscending(s) == IF s = <<>> THEN <<>> ELSE InsertSorted(Head(s), SortAscending(Tail(s)))

\* the mutant: only equal timestamps count as duplicates
RECURSIVE UniqueWithin_exact(_, _)
UniqueWithin_exact(kept, rest) ==
    IF rest = <<>> THEN kept
    ELSE IF kept # <<>> /\ Head(rest) = kept[Len(kept)]
    THEN UniqueWithin_exact(kept, Tail(rest))
    ELSE UniqueWithin_exact(Append(kept, Head(rest)), Tail(rest))

\* std::unique with |a - b| < 1.0: an element is dropped when it is closer
\* than 1.0 s to the last element kept
RECURSIVE UniqueWithin(_, _)
UniqueWithin(kept, rest) ==
    IF rest = <<>> THEN kept
    ELSE IF kept # <<>> /\ Abs(kept[Len(kept)] - Head(rest)) < MergeDistanceMs
    THEN UniqueWithin(kept, Tail(rest))
    ELSE UniqueWithin(Append(kept, Head(rest)), Tail(rest))

\* the mutant: the threshold argument is used as the floor
detection_floor_raw(threshold) == threshold

\* float detection_threshold = std::max(0.01f, threshold * 0.1f)
detection_floor(threshold) == Max2(One \div 100, threshold \div 10)

\* the timestamps pushed by the peak loop, in the order of the loop
RawPeaks(size, threshold, truth) ==
    InIndexOrder(all_timestamps(size),
        PeakIndices(all_probabilities(truth, size), detection_floor(threshold)))

\* the mutant: long audio without peaks gets no artificial change point
RawChangePoints_nofallback(size, threshold, truth) ==
    RawPeaks(size, threshold, truth)

\* the change points before sorting and merging: the peaks, or the
\* artificial points of long audio without peaks
RawChangePoints(size, threshold, truth) ==
    LET peaks == RawPeaks(size, threshold, truth)
    IN  IF peaks = <<>> /\ size > sample_rate * ArtificialMinSeconds
        THEN ArtificialFrom(ArtificialStepMs, ToMs(size))
        ELSE peaks

\* SpeakerSegmenter::detect_change_points(audio, threshold), in ms
detect_change_points(size, threshold, truth) ==
    UniqueWithin(<<>>, SortAscending(RawChangePoints(size, threshold, truth)))

\* ------------------------------------------- DiarizationEngine (pure)
\* speaker_id and confidence of a segment nobody has written yet (the
\* struct has no initialisers); no written value is negative
Unset == -1

\* AudioSegment; samples is audio[start_sample, end_sample)
Segment(start, end, start_sample, end_sample) ==
    [start_time |-> start, end_time |-> end,
     start_sample |-> start_sample, end_sample |-> end_sample,
     speaker_id |-> Unset, confidence |-> Unset]

\* the segment [start, end) if its sample range lies in the audio
SliceIfValid(start, end, size) ==
    LET start_sample == ToSamples(start)
        end_sample   == ToSamples(end)
    IN  IF end_sample <= size /\ start_sample < end_sample
        THEN <<Segment(start, end, start_sample, end_sample)>>
        ELSE <<>>

\* the mutant: the window end is not clamped to total_duration
WindowEnd_unclamped(start, total_duration) == start + SegmentDurationMs

\* end = std::min(start + segment_duration, total_duration)
WindowEnd(start, total_duration) ==
    Min2(start + SegmentDurationMs, total_duration)

\* for (start = 0; start < total_duration - 5; start += 25) ...
RECURSIVE FixedWindows(_, _, _)
FixedWindows(start, total_duration, size) ==
    IF start < total_duration - FixedTailMs
    THEN SliceIfValid(start, WindowEnd(start, total_duration), size)
            \o FixedWindows(start + SegmentDurationMs, total_duration, size)
    ELSE <<>>

\* the mutant: total_duration is not appended to the boundaries
Boundaries_nolast(change_points, total_duration) == <<0>> \o change_points

\* boundaries = {0, change_points..., total_duration}
Boundaries(change_points, total_duration) ==
    <<0>> \o change_points \o <<total_duration>>

\* the mutant: an interval of exactly 2.0 s is too short as well
TooShort_inclusive(start, end) == end - start <= MinSegmentMs

\* the mutant: no interval is too short
TooShort_never(start, end) == FALSE

\* if (end - start < 2.0f) continue;
TooShort(start, end) == end - start < MinSegmentMs

\* the loop over boundaries[i], boundaries[i + 1], from i on
RECURSIVE BetweenBoundaries(_, _, _)
BetweenBoundaries(boundaries, i, size) ==
    IF i >= Len(boundaries) THEN <<>>
    ELSE (IF TooShort(boundaries[i], boundaries[i + 1]) THEN <<>>
          ELSE SliceIfValid(boundaries[i], boundaries[i + 1], size))
         \o BetweenBoundaries(boundaries, i + 1, size)

\* DiarizationEngine::create_segments
create_segments(size, change_points) ==
    LET total_duration == ToMs(size)
    IN  IF change_points = <<>>
        THEN IF total_duration > LongAudioMs
             THEN FixedWindows(0, total_duration, size)
             ELSE <<Segment(0, total_duration, 0, size)>>
        ELSE BetweenBoundaries(Boundaries(change_points, total_duration), 1, size)

\* the mutant: the requested threshold is handed on as it is
detection_threshold_raw(threshold) == threshold

\* float detection_threshold = std::max(0.001f, options.threshold * 0.1f)
detection_threshold(threshold) == Max2(One \div 1000, threshold \div 10)

\* DiarizationEngine::detect_speaker_changes, for options.threshold
detect_speaker_changes(size, threshold, truth) ==
    detect_change_points(size, detection_threshold(threshold), truth)

\* ------------------------------------------------------------------- state
VARIABLES
    speaker_centroids_,  \* SpeakerEmbedder::speaker_centroids_
    speaker_counts_,     \* SpeakerEmbedder::speaker_counts_
    options,             \* DiarizeOptions: max_speakers, threshold
    calls,               \* find_or_create_speaker calls since the last reset
    audio_size,          \* audio.size(), in samples
    truth,               \* what the segmentation model hears: change times
    change_points,       \* result of detect_change_points, in ms
    segments,            \* result of create_segments / assign_speakers
    embed_out,           \* outcome of the embedding model per segment index
    seg_i,               \* loop index i of assign_speakers
    fresh,               \* no assignment since construction or reset
    failed_segments,     \* indices i reported "Speaker assignment failed"
    runs,                \* process_audio runs
    pc,                  \* position inside process_audio
    ready,               \* is_initialized() of the segmenter and the embedder
    events,              \* model and clusterer invocations of the current run
    peak_call            \* a call of Utils::Math::find_peaks in progress

vars == <<speaker_centroids_, speaker_counts_, options, calls, audio_size,
          truth, change_points, segments, embed_out, seg_i, fresh,
          failed_segments, runs, pc, ready, events, peak_call>>

\* ------------------------------------------------------ embedding inputs
\* a vector of the model's dimension whose first two components are a, b
Vec(a, b) == [i \in 1..EmbDim |-> IF i = 1 THEN a ELSE IF i = 2 THEN b ELSE 0]

\* raw outputs of the embedding model (before normalisation)
RawEmbeddings ==
    { Vec(FixedOne, 0), Vec(2 * FixedOne, 0), Vec(0, FixedOne),
      Vec(FixedOne, FixedOne), Vec(-FixedOne, 0), Vec(FixedOne, 2 * FixedOne),
      Vec(0, 0) }

\* what extract_embedding hands to the clusterer
Embeddings == { normalize_embedding(r) : r \in RawEmbeddings }

\* thresholds of direct find_or_create_speaker calls: -1.0, 0.3, 0.7, 1.0
ClusterThresholds == { -One, (3 * One) \div 10, (7 * One) \div 10, One }

\* ------------------------------------------- SpeakerEmbedder as an object
InitCommon ==
    /\ speaker_centroids_ = <<>>
    /\ speaker_counts_ = <<>>
    /\ calls = <<>>
    /\ change_points = <<>>
    /\ segments = <<>>
    /\ embed_out = <<>>
    /\ seg_i = 0
    /\ fresh = TRUE
    /\ failed_segments = {}
    /\ runs = <<>>
    /\ events = <<>>

\* both models loaded: DiarizationEngine::initialize returned true
BothReady == [segmenter |-> TRUE, embedder |-> TRUE]

\* no call of Utils::Math::find_peaks is in progress
NoFindPeaks == [at |-> "none"]

InitCluster ==
    /\ InitCommon
    /\ peak_call = NoFindPeaks
    /\ ready = BothReady
    /\ audio_size = 0
    /\ truth = {}
    /\ pc = "idle"
    /\ options \in [max_speakers : 0..MaxSpk, threshold : ClusterThresholds]

\* what one find_or_create_speaker call was given, found and left behind;
\* run and segment say which pass of assign_speakers made the call
CallRecord(e, threshold, r, run, segment) ==
    [embedding |-> e, threshold |-> threshold,
     id |-> r.id, created |-> r.created,
     before |-> speaker_centroids_, counts_before |-> speaker_counts_,
     after |-> r.centroids, counts_after |-> r.counts,
     run |-> run, segment |-> segment]

\* a call embedder.find_or_create_speaker(e, threshold, max_speakers)
CallFindOrCreate ==
    /\ Len(calls) < MaxCalls
    /\ \E e \in Embeddings :
          LET r == find_or_create_speaker(speaker_centroids_, speaker_counts_,
                       e, options.threshold, options.max_speakers)
          IN  /\ speaker_centroids_' = r.centroids
              /\ speaker_counts_' = r.counts
              /\ calls' = Append(calls,
                     CallRecord(e, options.threshold, r, 0, Len(calls)))
    /\ fresh' = FALSE
    /\ UNCHANGED <<options, audio_size, truth, change_points, segments,
                   embed_out, seg_i, failed_segments, runs, pc, ready, events,
                   peak_call>>

\* the mutant: the profiles survive the reset
reset_speakers_keeps ==
    /\ pc = "idle"
    /\ calls' = <<>>
    /\ fresh' = TRUE
    /\ UNCHANGED <<speaker_centroids_, speaker_counts_, options, audio_size,
                   truth, change_points, segments, embed_out, seg_i, failed_segments, runs, pc, ready, events,
                   peak_call>>

\* SpeakerEmbedder::reset_speakers, called between two process_audio runs
reset_speakers ==
    /\ pc = "idle"
    /\ speaker_centroids_' = <<>>
    /\ speaker_counts_' = <<>>
    /\ calls' = <<>>
    /\ fresh' = TRUE
    /\ UNCHANGED <<options, audio_size, truth, change_points, segments,
                   embed_out, seg_i, failed_segments, runs, pc, ready, events,
                   peak_call>>

NextCluster == CallFindOrCreate \/ reset_speakers

SpecCluster == InitCluster /\ [][NextCluster]_vars

\* ------------------------------------- the two stages as pure functions
\* audio lengths, in seconds
StageSeconds == {0, 1, 3, 8, 30, 31, 40, 41, 55, 80}

\* audio.size() of the stage inputs: whole seconds, and the two sizes
\* around one window
StageSizes ==
    { sec * sample_rate : sec \in StageSeconds }
        \cup { window_size_, window_size_ + 1 }

\* times (ms) at which the speaker may change
ChangeTimes == {1700, 2000, 12300, 35000}

\* normalised entropies of a change frame: 0.004, 0.3, 0.7
Entropies == { One \div 250, (3 * One) \div 10, (7 * One) \div 10 }

\* what the segmentation model may hear: at most MaxChanges changes
Truths ==
    { T \in SUBSET [t : ChangeTimes, h : Entropies] :
        /\ Cardinality(T) <= MaxChanges
        /\ \A c, d \in T : c.t = d.t => c = d }

\* threshold arguments of detect_change_points: 0.001 and 0.5
DetectThresholds == { One \div 1000, One \div 2 }

\* change-point lists handed to create_segments: any order, any spacing
GivenTimes == {500, 1500, 2000, 12300, 28500, 29000, 41000}

GivenLists == UNION { [1..n -> GivenTimes] : n \in 0..MaxGiven }

\* input of detect_change_points(audio, threshold)
InitDetectInput ==
    /\ InitCommon
    /\ peak_call = NoFindPeaks
    /\ ready = BothReady
    /\ audio_size \in StageSizes
    /\ truth \in Truths
    /\ options \in [max_speakers : {0}, threshold : DetectThresholds]
    /\ pc = "idle"

\* input of create_segments(audio, change_points, options)
InitSegmentInput ==
    /\ peak_call = NoFindPeaks
    /\ speaker_centroids_ = <<>>
    /\ speaker_counts_ = <<>>
    /\ calls = <<>>
    /\ segments = <<>>
    /\ embed_out = <<>>
    /\ seg_i = 0
    /\ fresh = TRUE
    /\ failed_segments = {}
    /\ runs = <<>>
    /\ events = <<>>
    /\ ready = BothReady
    /\ audio_size \in StageSizes
    /\ truth = {}
    /\ options \in [max_speakers : {0}, threshold : {One \div 1000}]
    /\ change_points \in GivenLists
    /\ pc = "given"

InitStages == InitDetectInput \/ InitSegmentInput

\* segmenter.detect_change_points(audio, threshold)
DetectChangePoints ==
    /\ pc = "idle"
    /\ change_points' = detect_change_points(audio_size, options.threshold, truth)
    /\ pc' = "detected"
    /\ UNCHANGED <<speaker_centroids_, speaker_counts_, options, calls,
                   audio_size, truth, segments, embed_out, seg_i, fresh,
                   failed_segments, runs, ready, events,
                   peak_call>>

\* create_segments(audio, change_points, options)
CreateSegments ==
    /\ pc \in {"detected", "given"}
    /\ segments' = create_segments(audio_size, change_points)
    /\ pc' = IF pc = "detected" THEN "segmented_detected" ELSE "segmented_given"
    /\ UNCHANGED <<speaker_centroids_, speaker_counts_, options, calls,
                   audio_size, truth, change_points, embed_out, seg_i, fresh,
                   failed_segments, runs, ready, events,
                   peak_call>>

NextStages == DetectChangePoints \/ CreateSegments

SpecStages == InitStages /\ [][NextStages]_vars

\* ------------------------------------------------------- process_audio
\* audio lengths of the pipeline runs, in seconds
PipelineSeconds == {1, 8, 40}

\* what the segmentation model hears in the pipeline runs
PipelineTruths ==
    { {},
      { [t |-> 2000, h |-> One \div 250] },
      { [t |-> 2000, h |-> (7 * One) \div 10] },
      { [t |-> 2000, h |-> (7 * One) \div 10],
        [t |-> 12300, h |-> (3 * One) \div 10] } }

\* options.threshold: 0.01 (the default) and 0.5
UserThresholds == { One \div 100, One \div 2 }

\* what session_->Run of the embedding model does for one segment: it
\* returns a raw vector or raises an error
ModelOutputs ==
    { [raises |-> FALSE, data |-> r] :
        r \in { Vec(FixedOne, 0), Vec(0, FixedOne), Vec(FixedOne, FixedOne),
                Vec(2 * FixedOne, FixedOne) } }
    \cup { [raises |-> TRUE, data |-> <<>>] }

\* SpeakerEmbedder::extract_embedding: the normalised output, or zeros when
\* the model call raised
extract_embedding(model_output) ==
    IF model_output.raises
    THEN [i \in 1..EmbDim |-> 0]
    ELSE normalize_embedding(model_output.data)

\* assignment_threshold = std::max(0.3f, options.threshold)
assignment_threshold(threshold) == Max2((3 * One) \div 10, threshold)

Init ==
    /\ InitCommon
    /\ peak_call = NoFindPeaks
    /\ ready = [segmenter |-> FALSE, embedder |-> FALSE]
    /\ audio_size \in { sec * sample_rate : sec \in PipelineSeconds }
    /\ truth \in PipelineTruths
    /\ options \in [max_speakers : 0..MaxSpk, threshold : UserThresholds]
    /\ pc = "idle"

\* DiarizationEngine::initialize, called before the first process_audio:
\* the segmenter's model is loaded first, the embedder's only after it; a
\* model that cannot be loaded leaves its session_ null
initialize ==
    /\ pc = "idle"
    /\ runs = <<>>
    /\ ready = [segmenter |-> FALSE, embedder |-> FALSE]
    /\ ready' \in { [segmenter |-> FALSE, embedder |-> FALSE],
                    [segmenter |-> TRUE, embedder |-> FALSE],
                    BothReady }
    /\ UNCHANGED <<speaker_centroids_, speaker_counts_, options, calls,
                   audio_size, truth, change_points, segments, embed_out,
                   seg_i, fresh, failed_segments, runs, pc, events,
                   peak_call>>

\* process_audio, step 1: detect_speaker_changes, which returns {} when the
\* segmenter is not initialized
StartProcessAudio ==
    /\ pc = "idle"
    /\ Len(runs) < MaxRuns
    /\ change_points' =
          IF ready.segmenter
          THEN detect_speaker_changes(audio_size, options.threshold, truth)
          ELSE <<>>
    /\ segments' = <<>>
    /\ seg_i' = 0
    /\ failed_segments' = {}
    /\ events' = <<>>
    /\ runs' = Append(runs,
          [fresh |-> fresh,
           profiles |-> Len(speaker_centroids_),
           detection_threshold |->
               IF ready.segmenter THEN detection_threshold(options.threshold)
               ELSE Unset,
           assignment_threshold |-> Unset,
           ids |-> <<>>, done |-> FALSE])
    /\ pc' = "create_segments"
    /\ UNCHANGED <<speaker_centroids_, speaker_counts_, options, calls,
                   audio_size, truth, embed_out, fresh, ready,
                   peak_call>>

\* process_audio, step 2: create_segments
ProcessCreateSegments ==
    /\ pc = "create_segments"
    /\ segments' = create_segments(audio_size, change_points)
    /\ pc' = "enter_assign_speakers"
    /\ UNCHANGED <<speaker_centroids_, speaker_counts_, options, calls,
                   audio_size, truth, change_points, embed_out, seg_i, fresh,
                   failed_segments, runs, ready, events,
                   peak_call>>

\* what a read of an AudioSegment's speaker_id and confidence gives when
\* nothing was ever written to them: any int and any float, here one pair
\* inside and one pair outside the ranges of a label
Indeterminate ==
    { [speaker_id |-> 0, confidence |-> Half],
      [speaker_id |-> -7, confidence |-> 2 * One] }

\* assign_speakers with an embedder that is not initialized: the segments
\* are returned as create_segments left them, and process_audio returns them
AssignSpeakersNotInitialized ==
    /\ pc = "enter_assign_speakers"
    /\ ~ready.embedder
    /\ \E read \in [1..Len(segments) -> Indeterminate] :
          segments' = [i \in 1..Len(segments) |->
                          [segments[i] EXCEPT
                              !.speaker_id = read[i].speaker_id,
                              !.confidence = read[i].confidence]]
    /\ runs' = [runs EXCEPT ![Len(runs)] =
                   [@ EXCEPT !.ids = [i \in 1..Len(segments) |->
                                          segments'[i].speaker_id],
                             !.done = TRUE]]
    /\ pc' = "idle"
    /\ UNCHANGED <<speaker_centroids_, speaker_counts_, options, calls,
                   audio_size, truth, change_points, embed_out, seg_i, fresh,
                   failed_segments, ready, events,
                   peak_call>>

\* assign_speakers with an initialized embedder, up to the loop
EnterAssignSpeakers ==
    /\ pc = "enter_assign_speakers"
    /\ ready.embedder
    /\ runs' = [runs EXCEPT ![Len(runs)] =
                   [@ EXCEPT !.assignment_threshold =
                                 assignment_threshold(options.threshold)]]
    /\ pc' = "assign_speakers"
    /\ UNCHANGED <<speaker_centroids_, speaker_counts_, options, calls,
                   audio_size, truth, change_points, segments, embed_out,
                   seg_i, fresh, failed_segments, ready, events,
                   peak_call>>

\* what the environment does while segment seg_i is processed: the model's
\* output, and whether the next allocation of a vector fails.  The first
\* run draws it, later runs on the same audio meet the same.
Outcomes(may_fail) ==
    IF seg_i < Len(embed_out)
    THEN { embed_out[seg_i + 1] }
    ELSE [model : ModelOutputs, alloc_fails : {may_fail}]

Remember(outcome) ==
    IF seg_i < Len(embed_out) THEN embed_out ELSE Append(embed_out, outcome)

\* find_or_create_speaker for the segment at seg_i under `outcome`
Assignment(outcome) ==
    find_or_create_speaker(speaker_centroids_, speaker_counts_,
        extract_embedding(outcome.model),
        assignment_threshold(options.threshold), options.max_speakers)

\* extract_embedding throws: the model call raised and the zero vector of
\* its catch block could not be allocated
ExtractionThrows(outcome) == outcome.alloc_fails /\ outcome.model.raises

\* find_or_create_speaker throws: push_back of the new profile fails
ClusteringThrows(outcome) ==
    /\ outcome.alloc_fails
    /\ ~outcome.model.raises
    /\ Assignment(outcome).created

Event(op, segment) == [op |-> op, segment |-> segment]

\* the mutant: a failed model call is attempted a second time
LoopEvents_retry(i) ==
    << Event("model", i), Event("model", i),
       Event("find_or_create_speaker", i), Event("calculate_confidence", i) >>

\* the calls of one pass of the loop body, in the order of the statements
LoopEvents(i) ==
    << Event("model", i), Event("find_or_create_speaker", i),
       Event("calculate_confidence", i) >>

\* the mutant: the confidence is computed before the centroid update
Labels_before(embedding, r) ==
    [speaker_id |-> r.id,
     confidence |-> calculate_confidence(speaker_centroids_, embedding, r.id)]

\* segment.speaker_id and segment.confidence after find_or_create_speaker
\* returned r: calculate_confidence reads the centroids the call left
Labels(embedding, r) ==
    [speaker_id |-> r.id,
     confidence |-> calculate_confidence(r.centroids, embedding, r.id)]

\* assign_speakers, one pass of the loop body without exception
AssignSpeaker ==
    /\ pc = "assign_speakers"
    /\ seg_i < Len(segments)
    /\ \E outcome \in Outcomes(FALSE) :
          LET embedding == extract_embedding(outcome.model)
              r == Assignment(outcome)
              labels == Labels(embedding, r)
          IN  /\ ~ExtractionThrows(outcome)
              /\ ~ClusteringThrows(outcome)
              /\ speaker_centroids_' = r.centroids
              /\ speaker_counts_' = r.counts
              /\ segments' = [segments EXCEPT ![seg_i + 1] =
                     [@ EXCEPT !.speaker_id = labels.speaker_id,
                               !.confidence = labels.confidence]]
              /\ calls' = Append(calls,
                     CallRecord(embedding,
                         assignment_threshold(options.threshold), r,
                         Len(runs), seg_i))
              /\ embed_out' = Remember(outcome)
    /\ events' = events \o LoopEvents(seg_i)
    /\ seg_i' = seg_i + 1
    /\ fresh' = FALSE
    /\ UNCHANGED <<options, audio_size, truth, change_points,
                   failed_segments, runs, pc, ready,
                   peak_call>>

\* the loop index after the catch block: the loop goes on with i + 1
AfterCatch == seg_i + 1

\* the mutant: the catch block labels the segment with its own index
FallbackId_index(i, max_speakers) == i

\* the catch block's label: static_cast<int>(i % options.max_speakers)
FallbackId(i, max_speakers) == i % max_speakers

\* assign_speakers, one pass of the loop body that ends in the catch block
\* with max_speakers # 0: nothing was changed by the throwing call
AssignSpeakerThrows ==
    /\ pc = "assign_speakers"
    /\ seg_i < Len(segments)
    /\ options.max_speakers # 0
    /\ \E outcome \in Outcomes(TRUE) :
          /\ ExtractionThrows(outcome) \/ ClusteringThrows(outcome)
          /\ segments' = [segments EXCEPT ![seg_i + 1] =
                 [@ EXCEPT !.speaker_id =
                               FallbackId(seg_i, options.max_speakers),
                           !.confidence = Half]]
          /\ events' = events \o
                 (IF ExtractionThrows(outcome)
                  THEN << Event("model", seg_i) >>
                  ELSE << Event("model", seg_i),
                          Event("find_or_create_speaker", seg_i) >>)
          /\ embed_out' = Remember(outcome)
    /\ failed_segments' = failed_segments \cup {seg_i}
    /\ seg_i' = AfterCatch
    /\ UNCHANGED <<speaker_centroids_, speaker_counts_, options, calls,
                   audio_size, truth, change_points, fresh, runs, pc, ready,
                   peak_call>>

\* the catch block with max_speakers = 0: i % options.max_speakers divides
\* by zero.  A build that traps ends the process there; a build whose
\* division yields 0 computes i - 0 * 0 = i and goes on.  No profile can be
\* created with max_speakers = 0, so only extract_embedding throws here.
AssignSpeakerThrowsDivZero ==
    /\ pc = "assign_speakers"
    /\ seg_i < Len(segments)
    /\ options.max_speakers = 0
    /\ \E outcome \in Outcomes(TRUE) :
          /\ ExtractionThrows(outcome)
          /\ embed_out' = Remember(outcome)
    /\ events' = Append(events, Event("model", seg_i))
    /\ failed_segments' = failed_segments \cup {seg_i}
    /\ \/ /\ pc' = "crashed"
          /\ UNCHANGED <<segments, seg_i>>
       \/ /\ segments' = [segments EXCEPT ![seg_i + 1] =
                 [@ EXCEPT !.speaker_id = seg_i, !.confidence = Half]]
          /\ seg_i' = AfterCatch
          /\ pc' = pc
    /\ UNCHANGED <<speaker_centroids_, speaker_counts_, options, calls,
                   audio_size, truth, change_points, fresh, runs, ready,
                   peak_call>>

\* assign_speakers returns, process_audio returns the segments
FinishProcessAudio ==
    /\ pc = "assign_speakers"
    /\ seg_i = Len(segments)
    /\ runs' = [runs EXCEPT ![Len(runs)] =
                   [@ EXCEPT !.ids = [i \in 1..Len(segments) |->
                                          segments[i].speaker_id],
                             !.done = TRUE]]
    /\ pc' = "idle"
    /\ UNCHANGED <<speaker_centroids_, speaker_counts_, options, calls,
                   audio_size, truth, change_points, segments, embed_out,
                   seg_i, fresh, failed_segments, ready, events,
                   peak_call>>

Next ==
    \/ initialize
    \/ StartProcessAudio
    \/ ProcessCreateSegments
    \/ AssignSpeakersNotInitialized
    \/ EnterAssignSpeakers
    \/ AssignSpeaker
    \/ AssignSpeakerThrows
    \/ AssignSpeakerThrowsDivZero
    \/ FinishProcessAudio
    \/ reset_speakers

Spec == Init /\ [][Next]_vars

\* ------------------------------------------------ Utils::Math::find_peaks
\* longest signal, largest min_distance and highest score of the calls
PeakMaxLen == 3
PeakMaxDistance == 2
PeakLevels == 2

\* size_t is SizeBits wide: i, j, signal.size() - min_distance and
\* i + min_distance are computed modulo 2^SizeBits
SizeBits == 3
SizeMod == 2 ^ SizeBits

Signals == UNION { [1..n -> 0..PeakLevels] : n \in 0..PeakMaxLen }

PeakThresholds == {0, 1}

\* signal.size() - min_distance of the loop condition, in size_t
LoopBound(c) == (Len(c.signal) - c.min_distance) % SizeMod

\* signal[j]: inside the vector the score, outside it whatever lies behind
\* the buffer
ReadAt(c, j) == IF j < Len(c.signal) THEN c.signal[j + 1] ELSE c.beyond

\* the j of `for (j = i - min_distance; j <= i + min_distance; j++)`
Neighbourhood(c) == (c.i - c.min_distance)..((c.i + c.min_distance) % SizeMod)

\* the j at which `j != i && signal[j] >= signal[i]` holds
NotLower(c) ==
    { j \in Neighbourhood(c) : j # c.i /\ ReadAt(c, j) >= ReadAt(c, c.i) }

\* is_peak after the inner loop
IsPeak(c) == ReadAt(c, c.i) > c.threshold /\ NotLower(c) = {}

\* the indices the loop body reads at i: i itself and, above the threshold,
\* the neighbours up to the first that is not lower (break)
IndicesRead(c) ==
    {c.i} \cup
    (IF ReadAt(c, c.i) > c.threshold
     THEN { j \in Neighbourhood(c) \ {c.i} : \A k \in NotLower(c) : j <= k }
     ELSE {})

\* find_peaks(signal, threshold, min_distance) is called: i = min_distance.
\* `beyond` is the float a read past the end of the buffer yields if the
\* read does not fault.
InitPeaks ==
    /\ InitCommon
    /\ ready = BothReady
    /\ audio_size = 0
    /\ truth = {}
    /\ options \in [max_speakers : {0}, threshold : {One \div 100}]
    /\ pc = "idle"
    /\ \E signal \in Signals, threshold \in PeakThresholds,
          min_distance \in 0..PeakMaxDistance, beyond \in 0..PeakLevels :
          peak_call = [signal |-> signal, threshold |-> threshold,
                       min_distance |-> min_distance, beyond |-> beyond,
                       i |-> min_distance, peaks |-> <<>>,
                       outside |-> FALSE, at |-> "loop"]

\* one pass of the outer loop body.  A read outside [0, signal.size()) is
\* undefined: the process faults, or the read yields `beyond` and the loop
\* goes on.
FindPeaksIteration ==
    /\ peak_call.at = "loop"
    /\ peak_call.i < LoopBound(peak_call)
    /\ LET outside == \E j \in IndicesRead(peak_call) :
                          j >= Len(peak_call.signal)
       IN  \/ /\ outside
              /\ peak_call' = [peak_call EXCEPT !.outside = TRUE,
                                                !.at = "crashed"]
           \/ peak_call' =
                 [peak_call EXCEPT
                     !.peaks = IF IsPeak(peak_call)
                               THEN Append(@, peak_call.i) ELSE @,
                     !.outside = @ \/ outside,
                     !.i = @ + 1]
    /\ UNCHANGED <<speaker_centroids_, speaker_counts_, options, calls,
                   audio_size, truth, change_points, segments, embed_out,
                   seg_i, fresh, failed_segments, runs, pc, ready, events>>

\* the loop condition fails: return peaks
FindPeaksReturn ==
    /\ peak_call.at = "loop"
    /\ peak_call.i >= LoopBound(peak_call)
    /\ peak_call' = [peak_call EXCEPT !.at = "returned"]
    /\ UNCHANGED <<speaker_centroids_, speaker_counts_, options, calls,
                   audio_size, truth, change_points, segments, embed_out,
                   seg_i, fresh, failed_segments, runs, pc, ready, events>>

NextPeaks == FindPeaksIteration \/ FindPeaksReturn

SpecPeaks == InitPeaks /\ [][NextPeaks]_vars

\* ---------------------------------------------------------------- claims
\* C1: after any sequence of find_or_create_speaker calls made with the same
\* max_speakers >= 1 from a reset clusterer, the number of speaker profiles
\* never exceeds max_speakers.
C1_ProfilesBounded ==
    options.max_speakers >= 1 => Len(speaker_centroids_) <= options.max_speakers

C1_Witness ==
    /\ options.max_speakers >= 1
    /\ Len(speaker_centroids_) = options.max_speakers
    /\ Len(calls) > options.max_speakers

\* the embeddings of the calls since the reset are pairwise at similarity 1.0
PairwiseIdentical ==
    \A i, j \in 1..Len(calls) :
        i # j => cosine_similarity(calls[i].embedding, calls[j].embedding) = One

\* C2: from a reset clusterer, with threshold < 1.0 and max_speakers >= 1,
\* N >= 1 embeddings whose pairwise cosine similarity is 1.0 create exactly
\* one profile (id 0) and every one of the N calls returns id 0.
C2_IdenticalEmbeddingsOneSpeaker ==
    (/\ options.threshold < One
     /\ options.max_speakers >= 1
     /\ Len(calls) >= 1
     /\ PairwiseIdentical)
    => /\ Len(speaker_centroids_) = 1
       /\ \A i \in 1..Len(calls) :
            /\ calls[i].id = 0
            /\ calls[i].created = (i = 1)

C2_Witness ==
    /\ options.threshold < One
    /\ options.max_speakers >= 2
    /\ Len(calls) >= 3
    /\ PairwiseIdentical
    /\ speaker_counts_ = <<Len(calls)>>

\* the embeddings of the calls since the reset are pairwise below threshold
PairwiseBelowThreshold ==
    \A i, j \in 1..Len(calls) :
        i # j => cosine_similarity(calls[i].embedding, calls[j].embedding)
                     < options.threshold

\* C3: from a reset clusterer with max_speakers = K >= 1, K+1 embeddings
\* whose pairwise similarity is below threshold create exactly the ids
\* 0..K-1 for the first K, and the (K+1)-th call creates no profile and
\* returns the id of the existing profile most similar to it.
C3_ForcedAssignmentAtCapacity ==
    LET K == options.max_speakers
    IN  (K >= 1 /\ Len(calls) <= K + 1 /\ PairwiseBelowThreshold)
        => /\ \A i \in 1..Len(calls) :
                i <= K => calls[i].created /\ calls[i].id = i - 1
           /\ Len(calls) = K + 1 =>
                LET c == calls[K + 1]
                IN  /\ ~c.created
                    /\ Len(speaker_centroids_) = K
                    /\ c.id \in 0..(K - 1)
                    /\ \A j \in 1..K :
                          cosine_similarity(c.embedding, c.before[c.id + 1])
                            >= cosine_similarity(c.embedding, c.before[j])

C3_Witness ==
    /\ options.max_speakers >= 2
    /\ Len(calls) = options.max_speakers + 1
    /\ PairwiseBelowThreshold
    /\ calls[Len(calls)].id > 0

\* the change points found before sorting and merging
RawPoints == RawChangePoints(audio_size, options.threshold, truth)

RawPointSet == { RawPoints[i] : i \in 1..Len(RawPoints) }

\* C4: the list returned by detect_change_points is sorted ascending, no two
\* of its timestamps differ by less than 1.0 s, and of each run of points
\* closer than 1.0 s to the last kept point only the earliest is kept.
C4_ChangePointsSortedAndMerged ==
    pc \in {"detected", "segmented_detected"} =>
        /\ \A i, j \in 1..Len(change_points) :
              i < j => change_points[j] - change_points[i] >= MergeDistanceMs
        /\ \A i \in 1..Len(change_points) : change_points[i] \in RawPointSet
        /\ \A r \in RawPointSet :
              \E i \in 1..Len(change_points) :
                  /\ change_points[i] <= r
                  /\ r - change_points[i] < MergeDistanceMs

C4_Witness ==
    /\ pc = "detected"
    /\ Len(change_points) >= 2
    /\ \E i, j \in 1..Len(RawPoints) :
          /\ i < j
          /\ RawPoints[j] < RawPoints[i]
          /\ RawPoints[i] - RawPoints[j] < MergeDistanceMs

Segmented == pc \in {"segmented_detected", "segmented_given"}

\* C5 as claimed: no segment emitted by create_segments, for any audio and
\* any change-point list, is shorter than 2.0 s.
C5_NoSegmentShorterThanMin ==
    Segmented =>
        \A i \in 1..Len(segments) :
            segments[i].end_time - segments[i].start_time >= MinSegmentMs

\* C5 amended: a segment shorter than 2.0 s is emitted only by the
\* short-audio fallback (no change points, total_duration <= 30 s), as the
\* single segment [0, total_duration].
C5_ShortOnlyInShortAudioFallback ==
    Segmented =>
        \A i \in 1..Len(segments) :
            \/ segments[i].end_time - segments[i].start_time >= MinSegmentMs
            \/ /\ change_points = <<>>
               /\ ToMs(audio_size) <= LongAudioMs
               /\ Len(segments) = 1
               /\ segments[1].start_time = 0
               /\ segments[1].end_time = ToMs(audio_size)

C5_Witness ==
    /\ Segmented
    /\ change_points # <<>>
    /\ Len(segments) >= 1
    /\ Len(segments) < Len(change_points) + 1
    /\ \E i \in 1..Len(change_points) :
          /\ change_points[i] < MinSegmentMs
          /\ change_points[i] <= ToMs(audio_size)

\* number of starts 0, 25, 50, ... s below total_duration - 5 s
RECURSIVE WindowStartsBelow(_, _)
WindowStartsBelow(n, total) ==
    IF n * SegmentDurationMs < total - FixedTailMs
    THEN WindowStartsBelow(n + 1, total) ELSE n

\* C7: with no change points and total_duration > 30 s create_segments emits
\* [0,25), [25,50), ... for every start < total_duration - 5, the last end
\* clamped to total_duration; 40 s of audio whose frames all have the same
\* dominant class gives no change point and the segments [0,25), [25,40).
C7_FixedWindowFallback ==
    LET total == ToMs(audio_size)
    IN  /\ (Segmented /\ change_points = <<>> /\ total > LongAudioMs) =>
              /\ Len(segments) = WindowStartsBelow(0, total)
              /\ \A n \in 1..Len(segments) :
                    /\ segments[n].start_time = (n - 1) * SegmentDurationMs
                    /\ segments[n].end_time = Min2(n * SegmentDurationMs, total)
                    /\ segments[n].start_sample = ToSamples(segments[n].start_time)
                    /\ segments[n].end_sample = ToSamples(segments[n].end_time)
        /\ (pc = "segmented_detected" /\ total = 40000 /\ truth = {}) =>
              /\ change_points = <<>>
              /\ Len(segments) = 2
              /\ segments[1].start_time = 0 /\ segments[1].end_time = 25000
              /\ segments[2].start_time = 25000 /\ segments[2].end_time = 40000

C7_Witness ==
    /\ pc = "segmented_detected"
    /\ ToMs(audio_size) = 40000
    /\ truth = {}
    /\ change_points = <<>>
    /\ Len(segments) = 2

\* every interval between consecutive boundaries 0, cp_1, ..., cp_k, total
\* is at least 2.0 s long
AllIntervalsLong ==
    LET b == <<0>> \o change_points \o <<ToMs(audio_size)>>
    IN  \A i \in 1..(Len(b) - 1) : b[i + 1] - b[i] >= MinSegmentMs

\* C8: given k >= 1 change points with every interval between consecutive
\* boundaries at least 2.0 s long, create_segments emits exactly k+1
\* segments that tile [0, total_duration].
C8_SegmentsTileTheAudio ==
    (Segmented /\ Len(change_points) >= 1 /\ AllIntervalsLong) =>
        /\ Len(segments) = Len(change_points) + 1
        /\ segments[1].start_time = 0
        /\ segments[Len(segments)].end_time = ToMs(audio_size)
        /\ \A i \in 1..Len(change_points) :
              /\ segments[i].end_time = change_points[i]
              /\ segments[i + 1].start_time = change_points[i]

C8_Witness ==
    /\ pc = "segmented_given"
    /\ ToMs(audio_size) = 30000
    /\ change_points = <<12300>>
    /\ Len(segments) = 2
    /\ segments[1].end_time = 12300
    /\ segments[2].end_time = 30000

\* the segments assign_speakers has labelled so far
Labelled == 1..(IF pc = "assign_speakers" THEN seg_i ELSE Len(segments))

\* C6: the confidence attached to every output segment is in [0,1]; it is
\* 0.5 when the per-segment failure fallback labelled the segment, and 0.5
\* when the speaker id is not a valid profile index (max_speakers = 0: no
\* profile is ever created and every segment gets id 0).
C6_ConfidenceInUnitInterval ==
    pc \in {"assign_speakers", "idle"} =>
        \A i \in Labelled :
            /\ segments[i].confidence >= 0
            /\ segments[i].confidence <= One
            /\ (i - 1) \in failed_segments => segments[i].confidence = Half
            /\ options.max_speakers = 0 => segments[i].confidence = Half

C10_ExtractionFailureFallsBack ==
    (/\ ready.embedder
     /\ pc \in {"assign_speakers", "idle"}
     /\ options.max_speakers >= 1) =>
        \A i \in Labelled :
            embed_out[i].model.raises =>
                /\ segments[i].speaker_id = (i - 1) % options.max_speakers
                /\ segments[i].confidence = Half

\* the lowest-index profile (0-based) of maximal similarity to e
Closest(e, centroids) ==
    CHOOSE b \in 0..(Len(centroids) - 1) :
        /\ \A j \in 1..Len(centroids) :
              cosine_similarity(e, centroids[b + 1])
                  >= cosine_similarity(e, centroids[j])
        /\ \A j \in 1..b :
              cosine_similarity(e, centroids[j])
                  < cosine_similarity(e, centroids[b + 1])

\* C17: find_or_create_speaker decides as follows.  Let b be the
\* lowest-index profile with maximal similarity to e.  If that similarity is
\* strictly greater than threshold the call returns b (an equal similarity
\* does not match); otherwise, with fewer than max_speakers profiles, it
\* creates and returns a new profile; otherwise it returns b.
C17_DecisionRule ==
    \A i \in 1..Len(calls) :
        LET c == calls[i]
            n == Len(c.before)
        IN  IF n > 0 /\ cosine_similarity(c.embedding,
                             c.before[Closest(c.embedding, c.before) + 1])
                           > c.threshold
            THEN ~c.created /\ c.id = Closest(c.embedding, c.before)
            ELSE IF n < options.max_speakers
            THEN c.created /\ c.id = n
            ELSE /\ ~c.created
                 /\ n > 0 => c.id = Closest(c.embedding, c.before)

C17_Witness ==
    /\ \E i \in 1..Len(calls) :
          /\ calls[i].created
          /\ calls[i].before # <<>>
          /\ cosine_similarity(calls[i].embedding,
                  calls[i].before[Closest(calls[i].embedding, calls[i].before) + 1])
                = calls[i].threshold
    /\ \E i \in 1..Len(calls) :
          /\ ~calls[i].created
          /\ Len(calls[i].before) = options.max_speakers
          /\ calls[i].id > 0
          /\ cosine_similarity(calls[i].embedding, calls[i].before[calls[i].id + 1])
                <= calls[i].threshold

\* C18: speaker ids are dense and in creation order.  A newly created
\* profile gets the profile count before the call as its id and is appended
\* behind the existing profiles, which keep their positions; no other call
\* changes the number of profiles; and the ids returned since the reset are
\* exactly 0 .. count-1.
C18_IdsDenseInCreationOrder ==
    /\ \A i \in 1..Len(calls) :
          LET c == calls[i]
          IN  /\ c.created =>
                    /\ c.id = Len(c.before)
                    /\ Len(c.after) = Len(c.before) + 1
                    /\ \A j \in 1..Len(c.before) :
                          /\ c.after[j] = c.before[j]
                          /\ c.counts_after[j] = c.counts_before[j]
              /\ ~c.created => Len(c.after) = Len(c.before)
    /\ (options.max_speakers >= 1 /\ Len(calls) >= 1) =>
          { calls[i].id : i \in 1..Len(calls) }
              = 0..(Len(speaker_centroids_) - 1)

C18_Witness ==
    /\ Len(speaker_centroids_) = 3
    /\ Len(calls) = 4
    /\ ~calls[3].created
    /\ calls[4].created /\ calls[4].id = 2

\* C19 as claimed: every find_or_create_speaker call that returns the id of
\* an already existing profile raises that profile's sample_count by
\* exactly 1 and leaves every other profile's centroid and sample_count
\* unchanged.
C19_ExistingProfileUpdated ==
    \A i \in 1..Len(calls) :
        LET c == calls[i]
        IN  (~c.created /\ c.id < Len(c.before)) =>
                /\ c.counts_after[c.id + 1] = c.counts_before[c.id + 1] + 1
                /\ \A j \in 1..Len(c.before) :
                      j # c.id + 1 =>
                          /\ c.after[j] = c.before[j]
                          /\ c.counts_after[j] = c.counts_before[j]

\* process_audio has returned from its latest invocation
Returned == pc = "idle" /\ Len(runs) >= 1 /\ runs[Len(runs)].done

\* C11 as claimed: with an initialized embedder a failure while one segment
\* is processed never stops the clustering phase, and assign_speakers
\* returns one labelled segment per input segment, in the input order, with
\* start_time, end_time and samples unchanged.
C11_FailureNeverStopsClustering ==
    ready.embedder =>
        /\ pc # "crashed"
        /\ Returned =>
              LET input == create_segments(audio_size, change_points)
              IN  /\ Len(segments) = Len(input)
                  /\ \A i \in 1..Len(segments) :
                        /\ segments[i].start_time = input[i].start_time
                        /\ segments[i].end_time = input[i].end_time
                        /\ segments[i].start_sample = input[i].start_sample
                        /\ segments[i].end_sample = input[i].end_sample
                        /\ segments[i].speaker_id # Unset
                        /\ segments[i].confidence # Unset

\* C12 as claimed: when the embedder is not initialized, assign_speakers
\* returns no segments and process_audio yields an empty list.
C12_NotReadyReturnsEmpty ==
    (Returned /\ ~ready.embedder) => segments = <<>>

\* C13 as claimed: every process_audio invocation on an engine, the second
\* and later ones included, starts clustering from an empty profile set, so
\* the labels of a run (here: of the same audio with the same model
\* outputs) do not depend on the invocations before it.
C13_EveryRunStartsEmpty ==
    /\ \A a \in 1..Len(runs) : runs[a].profiles = 0
    /\ ready.embedder =>
          \A a, b \in 1..Len(runs) :
              (runs[a].done /\ runs[b].done) => runs[a].ids = runs[b].ids

\* requested thresholds around the two clamps
ThresholdGrid ==
    { -One, 0, One \div 1000, One \div 100, One \div 10,
      (3 * One) \div 10 - 1, (3 * One) \div 10, (3 * One) \div 10 + 1,
      One \div 2, (7 * One) \div 10, One, 2 * One }

\* C14: for every requested threshold t the change-point detector is given
\* max(0.001, 0.1 * t) and the clusterer max(0.3, t), and the former is
\* strictly lower than the latter.
C14_DetectionLooserThanClustering ==
    /\ \A t \in ThresholdGrid :
          /\ detection_threshold(t) = Max2(One \div 1000, t \div 10)
          /\ assignment_threshold(t) = Max2((3 * One) \div 10, t)
          /\ detection_threshold(t) < assignment_threshold(t)
    /\ \A a \in 1..Len(runs) :
          /\ ready.segmenter =>
                runs[a].detection_threshold
                    = Max2(One \div 1000, options.threshold \div 10)
          /\ runs[a].assignment_threshold # Unset =>
                /\ runs[a].assignment_threshold
                       = Max2((3 * One) \div 10, options.threshold)
                /\ runs[a].detection_threshold < runs[a].assignment_threshold

C14_Witness ==
    /\ Returned
    /\ options.threshold >= (3 * One) \div 10
    /\ runs[Len(runs)].assignment_threshold = options.threshold
    /\ runs[Len(runs)].detection_threshold = options.threshold \div 10
    /\ Len(change_points) >= 1

\* C15 as claimed: every segment returned by create_segments has
\* end_time > start_time, for every audio buffer (an empty one included)
\* and every change-point list.
C15_SegmentsHavePositiveLength ==
    Segmented =>
        \A i \in 1..Len(segments) :
            segments[i].end_time > segments[i].start_time

\* the operations invoked for the segment at index i, in their order
Ops(i) ==
    LET evs == SelectSeq(events, LAMBDA ev : ev.segment = i)
    IN  [k \in 1..Len(evs) |-> evs[k].op]

\* no event of a segment precedes an event of an earlier segment
InSegmentOrder ==
    \A j, k \in 1..Len(events) :
        j < k => events[j].segment <= events[k].segment

CallsOf(i) ==
    { k \in 1..Len(calls) :
        calls[k].run = Len(runs) /\ calls[k].segment = i }

\* C20: a segment's confidence is computed after the centroid update of its
\* own assignment, against the updated centroid of the assigned id; a
\* segment that creates a new profile from a unit-norm embedding gets
\* confidence 1.0.
C20_ConfidenceAfterUpdate ==
    (ready.embedder /\ ~fresh /\ pc \in {"assign_speakers", "idle"}) =>
        \A i \in Labelled :
            (i - 1) \notin failed_segments =>
                /\ Cardinality(CallsOf(i - 1)) = 1
                /\ \A k \in CallsOf(i - 1) :
                      LET c == calls[k]
                      IN  /\ segments[i].speaker_id = c.id
                          /\ segments[i].confidence =
                                IF c.id < Len(c.after)
                                THEN (cosine_similarity(c.embedding,
                                          c.after[c.id + 1]) + One) \div 2
                                ELSE Half
                          /\ (c.created
                              /\ DotProduct(c.embedding, c.embedding) >= One)
                                => segments[i].confidence = One

C20_Witness ==
    /\ Returned
    /\ ready.embedder
    /\ ~fresh
    /\ failed_segments = {}
    /\ \E i, j \in 1..Len(segments) :
          /\ \E k \in CallsOf(i - 1) :
                /\ calls[k].created
                /\ segments[i].confidence = One
          /\ \E k \in CallsOf(j - 1) :
                LET c == calls[k]
                IN  /\ ~c.created
                    /\ c.after # c.before
                    /\ segments[j].confidence #
                          (cosine_similarity(c.embedding,
                               c.before[c.id + 1]) + One) \div 2

\* detect_change_points has returned for the stage input
Detected == pc \in {"detected", "segmented_detected"}

\* 30, 60, 90, ... s, every t < duration - 10 s
SyntheticPoints(duration) ==
    [k \in 1..Max2(0, (duration - ArtificialTailMs - 1) \div ArtificialStepMs)
        |-> k * ArtificialStepMs]

\* C22: when peak analysis finds no peaks and the duration exceeds 10 s,
\* detect_change_points returns exactly the synthetic change points 30, 60,
\* 90, ... for every t < duration - 10 (none when duration <= 40 s); when a
\* peak is found no synthetic point is added.
C22_SyntheticChangePoints ==
    Detected =>
        LET duration == ToMs(audio_size)
            peaks == RawPeaks(audio_size, options.threshold, truth)
        IN  /\ (peaks = <<>> /\ duration > ArtificialMinSeconds * 1000) =>
                  change_points = SyntheticPoints(duration)
            /\ (peaks = <<>> /\ duration <= ArtificialStepMs + ArtificialTailMs) =>
                  change_points = <<>>
            /\ peaks # <<>> =>
                  /\ change_points # <<>>
                  /\ \A i \in 1..Len(change_points) :
                        \E j \in 1..Len(peaks) : change_points[i] = peaks[j]

C22_Witness ==
    /\ pc = "detected"
    /\ truth # {}
    /\ RawPeaks(audio_size, options.threshold, truth) = <<>>
    /\ change_points = << ArtificialStepMs, 2 * ArtificialStepMs >>

\* the change points are ascending and lie inside the audio, as the
\* detector returns them
InRangeAscending ==
    /\ \A i, j \in 1..Len(change_points) :
          i < j => change_points[i] <= change_points[j]
    /\ \A i \in 1..Len(change_points) :
          change_points[i] >= 0 /\ change_points[i] <= ToMs(audio_size)

\* C23: with a non-empty change-point list (ascending, inside the audio)
\* create_segments emits, in order, exactly the consecutive boundary pairs
\* of [0, change_points..., total_duration] that are at least 2.0 s long and
\* drops the others; the segments are ascending and do not overlap, and the
\* output is empty exactly when every interval is shorter than 2.0 s.
C23_LongIntervalsInOrder ==
    (Segmented /\ change_points # <<>> /\ InRangeAscending) =>
        LET b == <<0>> \o change_points \o <<ToMs(audio_size)>>
            long == { i \in 1..(Len(b) - 1) : b[i + 1] - b[i] >= MinSegmentMs }
        IN  /\ Len(segments) = Cardinality(long)
            /\ \A n \in 1..Len(segments) :
                  \E i \in long :
                      /\ Cardinality({ j \in long : j <= i }) = n
                      /\ segments[n].start_time = b[i]
                      /\ segments[n].end_time = b[i + 1]
                      /\ segments[n].start_sample = ToSamples(b[i])
                      /\ segments[n].end_sample = ToSamples(b[i + 1])
            /\ \A n \in 1..(Len(segments) - 1) :
                  segments[n].end_time <= segments[n + 1].start_time
            /\ (segments = <<>>) <=> (long = {})

C23_Witness ==
    /\ pc = "segmented_given"
    /\ InRangeAscending
    /\ Len(change_points) = 2
    /\ Len(segments) = 2
    /\ segments[1].end_time - segments[1].start_time = MinSegmentMs
    /\ segments[2].end_time < ToMs(audio_size)

\* C24: with an empty change-point list and total_duration <= 30 s
\* create_segments emits exactly one segment [0, total_duration] carrying
\* all samples of the buffer; a buffer of at most window_size samples gives
\* zero windows, hence zero change points, hence this single segment.
C24_ShortAudioSingleSegment ==
    LET total == ToMs(audio_size)
        whole == << Segment(0, total, 0, audio_size) >>
    IN  /\ (Segmented /\ change_points = <<>> /\ total <= LongAudioMs) =>
              segments = whole
        /\ (Detected /\ audio_size <= window_size_) => change_points = <<>>
        /\ (pc = "segmented_detected" /\ audio_size <= window_size_) =>
              segments = whole

C24_Witness ==
    /\ pc = "segmented_detected"
    /\ audio_size = window_size_
    /\ \E c \in truth : c.t < ToMs(window_size_) /\ c.h > One \div 2
    /\ Len(segments) = 1
    /\ segments[1].end_sample = window_size_

\* C25 as claimed: the accumulated timestamp list all_timestamps, as
\* concatenated across the windows scanned at offsets 0, hop, 2*hop, ..., is
\* non-decreasing.
C25_TimestampsNonDecreasing ==
    Detected =>
        LET ts == all_timestamps(audio_size)
        IN  \A k \in 1..(Len(ts) - 1) : ts[k] <= ts[k + 1]

\* C30: with an operational segmentation model and audio longer than 40 s
\* detect_change_points never returns an empty list, so the 25 s fixed
\* windows of create_segments are applied only to audio with
\* 30 s < duration <= 40 s.
C30_LongAudioAlwaysHasChangePoints ==
    LET total == ToMs(audio_size)
    IN  /\ (Detected /\ total > ArtificialStepMs + ArtificialTailMs) =>
              change_points # <<>>
        /\ (pc = "segmented_detected" /\ change_points = <<>>
                /\ total > LongAudioMs) =>
              /\ total <= ArtificialStepMs + ArtificialTailMs
              /\ segments = FixedWindows(0, total, audio_size)

C30_Witness ==
    /\ pc = "segmented_detected"
    /\ ToMs(audio_size) = 41000
    /\ truth = {}
    /\ change_points = << ArtificialStepMs >>
    /\ Len(segments) = 2
    /\ segments[2].start_time = ArtificialStepMs

\* C26 as claimed: after n find_or_create_speaker calls with max_speakers
\* >= 1 since the last reset the centroid list and the count list have the
\* same length, every sample_count is at least 1, and the sample_counts add
\* up to n.
C26_CountsAddUpToCalls ==
    options.max_speakers >= 1 =>
        /\ Len(speaker_centroids_) = Len(speaker_counts_)
        /\ \A j \in 1..Len(speaker_counts_) : speaker_counts_[j] >= 1
        /\ \A i \in 1..Len(calls) :
              calls[i].created =>
                  calls[i].counts_after[calls[i].id + 1] = 1
        /\ SumSeq(speaker_counts_) = Len(calls)

\* C27: on an initialized engine with max_speakers >= 1 every speaker_id
\* that process_audio has written, by clustering or by the catch block of a
\* failed segment, lies in [0, max_speakers).
C27_SpeakerIdInRange ==
    (ready = BothReady /\ options.max_speakers >= 1
        /\ pc \in {"assign_speakers", "idle"}) =>
        \A i \in Labelled :
            /\ segments[i].speaker_id >= 0
            /\ segments[i].speaker_id < options.max_speakers

\* a returned run in which a failed segment's index is not below
\* max_speakers and another segment was labelled by clustering
C27_Witness ==
    /\ Returned
    /\ ready = BothReady
    /\ options.max_speakers >= 1
    /\ \E i \in 1..Len(segments) :
          /\ (i - 1) \in failed_segments
          /\ i - 1 >= options.max_speakers
          /\ segments[i].speaker_id = (i - 1) % options.max_speakers
    /\ \E i \in 1..Len(segments) :
          /\ (i - 1) \notin failed_segments
          /\ segments[i].speaker_id = options.max_speakers - 1

\* C28 as claimed: a segment for which the embedding model call raised
\* leaves the speaker profiles as they were: no profile is created for it
\* and no centroid or sample_count changes.
C28_FailedExtractionKeepsProfiles ==
    (ready.embedder /\ pc \in {"assign_speakers", "idle"}) =>
        \A i \in Labelled :
            embed_out[i].model.raises =>
                \A k \in CallsOf(i - 1) :
                    /\ calls[k].after = calls[k].before
                    /\ calls[k].counts_after = calls[k].counts_before

\* thresholds main can hand to the engine: the clamped range [0.01, 0.8]
ClampedThresholds ==
    { One \div 100, One \div 20, One \div 10, (3 * One) \div 10, One \div 2,
      (8 * One) \div 10 }

\* C29: the requested threshold is scaled by 0.1 in detect_speaker_changes
\* and again in detect_change_points, so for every threshold in [0.01, 0.8]
\* the detection floor is 0.01, and the change points process_audio has
\* detected are those it would have detected for any other such threshold.
C29_ThresholdWithoutInfluence ==
    (pc = "create_segments" /\ ready.segmenter) =>
        /\ options.threshold \in ClampedThresholds
        /\ detection_floor(runs[Len(runs)].detection_threshold)
              = One \div 100
        /\ \A t \in ClampedThresholds :
              detection_floor(detection_threshold(t)) = One \div 100
        /\ \A t \in {One \div 100, (8 * One) \div 10} :
              t # options.threshold =>
                  change_points
                      = detect_speaker_changes(audio_size, t, truth)

\* change points were detected under a requested threshold of 0.5
C29_Witness ==
    /\ pc = "create_segments"
    /\ ready.segmenter
    /\ options.threshold = One \div 2
    /\ runs[Len(runs)].detection_threshold = One \div 20
    /\ truth # {}
    /\ change_points # <<>>
    /\ change_points[1] < ArtificialStepMs

\* the indices the description of find_peaks names, 0-based
ClaimedPeaks(signal, threshold, min_distance) ==
    { i \in min_distance..(Len(signal) - min_distance - 1) :
        /\ signal[i + 1] > threshold
        /\ \A j \in (i - min_distance)..(i + min_distance) :
              j # i => signal[j + 1] < signal[i + 1] }

\* the members of a set of numbers in ascending order
RECURSIVE Ascending(_)
Ascending(S) ==
    IF S = {} THEN <<>>
    ELSE LET m == CHOOSE x \in S : \A y \in S : x <= y
         IN  <<m>> \o Ascending(S \ {m})

\* C21 as claimed: for every signal, the empty one and those shorter than
\* 2 * min_distance + 1 included, find_peaks reads no index outside
\* [0, len), and returns in ascending order exactly the indices i with
\* min_distance <= i < len - min_distance whose score is above the
\* threshold and strictly above every other score within min_distance.
C21_FindPeaksInBounds ==
    peak_call.at # "none" =>
        /\ peak_call.at # "crashed"
        /\ ~peak_call.outside
        /\ peak_call.at = "returned" =>
              peak_call.peaks =
                  Ascending(ClaimedPeaks(peak_call.signal,
                      peak_call.threshold, peak_call.min_distance))

====
